---- MODULE Spec2Model ----
(***************************************************************************)
(* State-machine model of DeviceTransportBase (begin/end lifecycle) and    *)
(* DeviceWsInTransport (socket, reconnect loop, send, digest auth) of      *)
(* shelly-transports-ts.                                                   *)
(*                                                                         *)
(* One transport instance is modelled.  Every call of _onBegin creates a   *)
(* promise together with the closure (connect, resolve, reject) that the   *)
(* handlers of the sockets created by that closure capture; promises are   *)
(* numbered 1, 2, ... in creation order and 0 stands for null.  Sockets    *)
(* are numbered in creation order as well.  The JavaScript run time is     *)
(* single threaded, so every call and every event handler is one atomic    *)
(* step.  The close event is the last event of a socket, so a closed       *)
(* socket no longer refers to the closure of its handlers (owner NULL).    *)
(***************************************************************************)
EXTENDS Integers, Sequences, FiniteSets, TLC

\* ------------------------------------------------------------------ bounds
\* number of _onBegin invocations explored
MaxSessions == 2
\* number of WebSocket objects explored
MaxSockets == 8
\* number of rpcRequest / _regenerateAuthFrames calls explored
MaxCalls == 3

\* ------------------------------------------------------- program constants
WS_RETRY_BASE_DELAY == 500
RECONNECT_RETRIES_INFINITE == -1
DEFAULT_RECONNECT_RETRIES == 5

\* "options?.maxRetries" absent
Absent == -100
\* the values of options.maxRetries the transport is constructed with
ConfigMaxRetries == {Absent, 0, 1, 2, RECONNECT_RETRIES_INFINITE}

NULL == 0

\* challenges the device answers a 401 with: {nonce, realm, nc}
Challenges == {[nonce |-> 11, realm |-> "shelly-a", nc |-> 1],
               [nonce |-> 22, realm |-> "shelly-b", nc |-> 1]}
\* values of Date.now() when the client nonce is made
Times == {1001}
\* device ids and passwords given to authenticate
DeviceIds == {"dev"}
Passwords == {"pw1"}
\* nonce counts given to _regenerateAuthFrames when it is called directly
RegenCounts == {7}
\* what super.rpcRequest reports for a request: a result, an RPC error
\* other than 401, any other error, or a 401 whose message is a challenge,
\* is JSON but no challenge, or is not JSON
Outcomes == {"ok", "rpcError", "error",
             "401challenge", "401notChallenge", "401garbled"}

VARIABLES
    sha256Func,        \* _sha256Func is set (TRUE) or null (FALSE)
    authFrame,         \* _authFrame: <<>> (null) or <<[nonce, realm, nc]>>
    userShaToken,      \* _userShaToken
    cnonce,            \* module-level cnonce: NULL or a number
    calls,             \* calls[i]: the i-th call of rpcRequest (kind "rpc")
                       \* or of _regenerateAuthFrames (kind "regen"):
                       \*   phase  "hashing" | "sent" | "resolved" |
                       \*          "rejected" | "hung" (never settles)
                       \*   hasNc, nc     the nonce count the call passes on
                       \*   token, nonce, cn   arguments of the proof
                       \*   auth   <<>> or <<the auth block built>>
                       \*   err    the error the call was rejected with
                       \*   clean  history: no other rpcRequest took a
                       \*          nonce count and no challenge was
                       \*          captured since the call was issued
    authOp,            \* history: the last authentication step
    config,            \* options.maxRetries as given to the constructor
    isBusy,            \* DeviceTransportBase._isBusy
    beginPromise,      \* DeviceTransportBase._beginPromise: NULL or a promise
    promise,           \* promise[p]: "pending" | "resolved" | "rejected"
    socks,             \* socks[k]: [owner, state] of the k-th WebSocket
    ws,                \* _ws: NULL or a socket
    forceDisconnect,   \* _forceDisconnect
    retries,           \* _retries
    maxRetries,        \* _maxRetries
    reconnectTimeout,  \* _reconnectTimeout: NULL or the id of a timer
    isReconnecting,    \* _isReconnecting
    timers,            \* timers set with setTimeout and neither fired nor cleared
    drops,             \* history: close events handled as unexpected drops
                       \* since the last open event or disconnect
    lastOp             \* history: the call or event of the last step:
                       \*   op   "begin" | "end" | "open" | "close" | "timer" | "send"
                       \*   res  its result or the branch its handler took
                       \*   h    the promise returned, or whose closure ran
                       \*   n    retry count (close) or delay (timer)
                       \*   f    begin: _onBegin was invoked; end ok: a timer
                       \*        was cleared; end throw: the previous call
                       \*        was end too; close: close() had been called
                       \*        on the socket; send: frame was transmitted

\* the connection and lifecycle part of the state
connVars == <<isBusy, beginPromise, promise, socks, ws, forceDisconnect,
              retries, maxRetries, reconnectTimeout, isReconnecting, timers,
              drops, lastOp>>

authVars == <<sha256Func, authFrame, userShaToken, cnonce, calls, authOp>>

vars == <<config, connVars, authVars>>

\* ---------------------------------------------------------------- helpers
Max(a, b) == IF a >= b THEN a ELSE b

Op(op, res, h, n, f) == [op |-> op, res |-> res, h |-> h, n |-> n, f |-> f]

\* constructor: this._maxRetries = options?.maxRetries || DEFAULT_RECONNECT_RETRIES
EffectiveMaxRetries(opt) ==
    IF opt = Absent \/ opt = 0 THEN DEFAULT_RECONNECT_RETRIES ELSE opt

\* resolve() / reject() of a promise: only a pending promise settles
Settle(ps, p, outcome) ==
    IF ps[p] = "pending" THEN [ps EXCEPT ![p] = outcome] ELSE ps

\* clearTimeout(this._reconnectTimeout) when it is set
ClearTimeout(ts, id) == {t \in ts : t.id # id}

\* this._ws?.close(): a connecting or open socket starts closing and its
\* close event is delivered later; anything else is left alone
CloseSocket(ss, k) ==
    IF k # NULL /\ ss[k].state \in {"connecting", "open"}
    THEN [ss EXCEPT ![k].state = "closing"]
    ELSE ss

\* faulty variant of Delay: the delay grows with the retry count from the first retry
Delay_linear(r) == WS_RETRY_BASE_DELAY * r

\* WS_RETRY_BASE_DELAY * Math.max(this._retries, DEFAULT_RECONNECT_RETRIES)
Delay(r) == WS_RETRY_BASE_DELAY * Max(r, DEFAULT_RECONNECT_RETRIES)

\* the retry budget test of onclose
MayRetry(r, m) == r < m \/ m = RECONNECT_RETRIES_INFINITE

Live(k) == socks[k].state \in {"connecting", "open"}

\* ------------------------------------------------------------------- Init
ConnInit ==
    /\ config \in ConfigMaxRetries
    /\ isBusy = FALSE
    /\ beginPromise = NULL
    /\ promise = <<>>
    /\ socks = <<>>
    /\ ws = NULL
    /\ forceDisconnect = FALSE
    /\ retries = 0
    /\ maxRetries = EffectiveMaxRetries(config)
    /\ reconnectTimeout = NULL
    /\ isReconnecting = FALSE
    /\ timers = {}
    /\ drops = 0
    /\ lastOp = Op("init", "ok", NULL, 0, FALSE)

AOp(op, res, i, ch) == [op |-> op, res |-> res, i |-> i, ch |-> ch]

AuthInit ==
    /\ authFrame = <<>>
    /\ userShaToken = ""
    /\ cnonce = NULL
    /\ calls = <<>>
    /\ authOp = AOp("init", "ok", 0, <<>>)

\* a transport constructed without a hash function (the default)
Init == ConnInit /\ AuthInit /\ sha256Func = FALSE

\* a transport constructed with or without a hash function
InitAuth ==
    ConnInit /\ config = Absent /\ AuthInit /\ sha256Func \in BOOLEAN

\* ---------------------------------------------------------------- actions
\* connect() of the closure of promise p: a new socket replaces _ws
connect(p) ==
    /\ socks' = Append(socks, [owner |-> p, state |-> "connecting"])
    /\ ws' = Len(socks) + 1
    /\ forceDisconnect' = FALSE
    /\ isReconnecting' = FALSE

\* faulty variant of begin: the stored handle is not looked at
begin_noDedup ==
    IF isBusy
    THEN /\ lastOp' = Op("begin", "throw", NULL, 0, FALSE)
         /\ UNCHANGED <<isBusy, beginPromise, promise, socks, ws,
                        forceDisconnect, retries, maxRetries,
                        reconnectTimeout, isReconnecting, timers, drops>>
    ELSE /\ Len(promise) < MaxSessions
         /\ Len(socks) < MaxSockets
         /\ isBusy' = TRUE
         /\ promise' = Append(promise, "pending")
         /\ beginPromise' = Len(promise) + 1
         /\ connect(Len(promise) + 1)
         /\ lastOp' = Op("begin", "handle", Len(promise) + 1, 0, TRUE)
         /\ UNCHANGED <<retries, maxRetries, reconnectTimeout, timers, drops>>

\* DeviceTransportBase.begin() with DeviceWsInTransport._onBegin()
begin ==
    IF beginPromise # NULL
    THEN /\ lastOp' = Op("begin", "handle", beginPromise, 0, FALSE)
         /\ UNCHANGED <<isBusy, beginPromise, promise, socks, ws,
                        forceDisconnect, retries, maxRetries,
                        reconnectTimeout, isReconnecting, timers, drops>>
    ELSE IF isBusy
    THEN /\ lastOp' = Op("begin", "throw", NULL, 0, FALSE)
         /\ UNCHANGED <<isBusy, beginPromise, promise, socks, ws,
                        forceDisconnect, retries, maxRetries,
                        reconnectTimeout, isReconnecting, timers, drops>>
    ELSE /\ Len(promise) < MaxSessions
         /\ Len(socks) < MaxSockets
         /\ isBusy' = TRUE
         /\ promise' = Append(promise, "pending")
         /\ beginPromise' = Len(promise) + 1
         /\ connect(Len(promise) + 1)
         /\ lastOp' = Op("begin", "handle", Len(promise) + 1, 0, TRUE)
         /\ UNCHANGED <<retries, maxRetries, reconnectTimeout, timers, drops>>

\* faulty variant of onEnd: the pending reconnect timer is forgotten, not cleared
onEnd_noClear ==
    /\ forceDisconnect' = TRUE
    /\ isReconnecting' = FALSE
    /\ timers' = timers
    /\ reconnectTimeout' = NULL
    /\ socks' = CloseSocket(socks, ws)
    /\ ws' = NULL
    /\ retries' = 0
    /\ drops' = 0

\* faulty variant of onEnd: the retry counter is not reset
onEnd_keepsRetries ==
    /\ forceDisconnect' = TRUE
    /\ isReconnecting' = FALSE
    /\ timers' = IF reconnectTimeout # NULL
                 THEN ClearTimeout(timers, reconnectTimeout) ELSE timers
    /\ reconnectTimeout' = NULL
    /\ socks' = CloseSocket(socks, ws)
    /\ ws' = NULL
    /\ retries' = retries
    /\ drops' = 0

\* DeviceWsInTransport._onEnd()
onEnd ==
    /\ forceDisconnect' = TRUE
    /\ isReconnecting' = FALSE
    /\ timers' = IF reconnectTimeout # NULL
                 THEN ClearTimeout(timers, reconnectTimeout) ELSE timers
    /\ reconnectTimeout' = NULL
    /\ socks' = CloseSocket(socks, ws)
    /\ ws' = NULL
    /\ retries' = 0
    /\ drops' = 0

\* faulty variant of end: no test of the busy flag
end_noGuard ==
    /\ isBusy' = FALSE
    /\ beginPromise' = NULL
    /\ onEnd
    /\ lastOp' = Op("end", "ok", NULL, 0, reconnectTimeout # NULL)
    /\ UNCHANGED <<promise, maxRetries>>

\* faulty variant of end: the stored handle is not discarded
end_keepsHandle ==
    IF ~isBusy
    THEN /\ lastOp' = Op("end", "throw", NULL, 0, lastOp.op = "end")
         /\ UNCHANGED <<isBusy, beginPromise, promise, socks, ws,
                        forceDisconnect, retries, maxRetries,
                        reconnectTimeout, isReconnecting, timers, drops>>
    ELSE /\ isBusy' = FALSE
         /\ beginPromise' = beginPromise
         /\ onEnd
         /\ lastOp' = Op("end", "ok", NULL, 0, reconnectTimeout # NULL)
         /\ UNCHANGED <<promise, maxRetries>>

\* faulty variant of end: the busy flag is not reset
end_keepsBusy ==
    IF ~isBusy
    THEN /\ lastOp' = Op("end", "throw", NULL, 0, lastOp.op = "end")
         /\ UNCHANGED <<isBusy, beginPromise, promise, socks, ws,
                        forceDisconnect, retries, maxRetries,
                        reconnectTimeout, isReconnecting, timers, drops>>
    ELSE /\ isBusy' = isBusy
         /\ beginPromise' = NULL
         /\ onEnd
         /\ lastOp' = Op("end", "ok", NULL, 0, reconnectTimeout # NULL)
         /\ UNCHANGED <<promise, maxRetries>>

\* DeviceTransportBase.end()
end ==
    IF ~isBusy
    THEN /\ lastOp' = Op("end", "throw", NULL, 0, lastOp.op = "end")
         /\ UNCHANGED <<isBusy, beginPromise, promise, socks, ws,
                        forceDisconnect, retries, maxRetries,
                        reconnectTimeout, isReconnecting, timers, drops>>
    ELSE /\ isBusy' = FALSE
         /\ beginPromise' = NULL
         /\ onEnd
         /\ lastOp' = Op("end", "ok", NULL, 0, reconnectTimeout # NULL)
         /\ UNCHANGED <<promise, maxRetries>>

\* faulty variant of onopen: the pending reconnect timer is not cleared
onopen_noClear(k) ==
    /\ socks[k].state = "connecting"
    /\ socks' = [socks EXCEPT ![k].state = "open"]
    /\ retries' = 0
    /\ isReconnecting' = FALSE
    /\ timers' = timers
    /\ reconnectTimeout' = NULL
    /\ promise' = Settle(promise, socks[k].owner, "resolved")
    /\ drops' = 0
    /\ lastOp' = Op("open", "ok", socks[k].owner, 0, FALSE)
    /\ UNCHANGED <<isBusy, beginPromise, ws, forceDisconnect, maxRetries>>

\* faulty variant of onopen: the retry counter is not reset
onopen_noReset(k) ==
    /\ socks[k].state = "connecting"
    /\ socks' = [socks EXCEPT ![k].state = "open"]
    /\ retries' = retries
    /\ isReconnecting' = FALSE
    /\ timers' = IF reconnectTimeout # NULL
                 THEN ClearTimeout(timers, reconnectTimeout) ELSE timers
    /\ reconnectTimeout' = NULL
    /\ promise' = Settle(promise, socks[k].owner, "resolved")
    /\ drops' = 0
    /\ lastOp' = Op("open", "ok", socks[k].owner, 0, FALSE)
    /\ UNCHANGED <<isBusy, beginPromise, ws, forceDisconnect, maxRetries>>

\* the open event of socket k: this._ws.onopen
onopen(k) ==
    /\ socks[k].state = "connecting"
    /\ socks' = [socks EXCEPT ![k].state = "open"]
    /\ retries' = 0
    /\ isReconnecting' = FALSE
    /\ timers' = IF reconnectTimeout # NULL
                 THEN ClearTimeout(timers, reconnectTimeout) ELSE timers
    /\ reconnectTimeout' = NULL
    /\ promise' = Settle(promise, socks[k].owner, "resolved")
    /\ drops' = 0
    /\ lastOp' = Op("open", "ok", socks[k].owner, 0, FALSE)
    /\ UNCHANGED <<isBusy, beginPromise, ws, forceDisconnect, maxRetries>>

\* faulty variant of onclose: exhausted retries are not reported
onclose_noReject(k) ==
    /\ socks[k].state \in {"connecting", "open", "closing"}
    /\ socks' = [socks EXCEPT ![k] = [owner |-> NULL, state |-> "closed"]]
    /\ LET p == socks[k].owner
           byEnd == socks[k].state = "closing"
       IN
       IF forceDisconnect
       THEN /\ lastOp' = Op("close", "forced", p, 0, byEnd)
            /\ UNCHANGED <<promise, retries, reconnectTimeout,
                           isReconnecting, timers, drops>>
       ELSE IF isReconnecting
       THEN /\ lastOp' = Op("close", "dup", p, 0, byEnd)
            /\ UNCHANGED <<promise, retries, reconnectTimeout,
                           isReconnecting, timers, drops>>
       ELSE IF MayRetry(retries, maxRetries)
       THEN /\ retries' = retries + 1
            /\ isReconnecting' = TRUE
            /\ timers' = timers \cup
                   {[id |-> k, owner |-> p, delay |-> Delay(retries + 1)]}
            /\ reconnectTimeout' = k
            /\ drops' = drops + 1
            /\ lastOp' = Op("close", "retry", p, retries + 1, byEnd)
            /\ UNCHANGED promise
       ELSE /\ promise' = promise
            /\ drops' = drops + 1
            /\ lastOp' = Op("close", "reject", p, retries, byEnd)
            /\ UNCHANGED <<retries, reconnectTimeout, isReconnecting, timers>>
    /\ UNCHANGED <<isBusy, beginPromise, ws, forceDisconnect, maxRetries>>

\* the close event of socket k: this._ws.onclose.  The event is delivered
\* once per socket, either because the connection failed or dropped
\* (connecting, open) or because close() was called on it (closing).
onclose(k) ==
    /\ socks[k].state \in {"connecting", "open", "closing"}
    /\ socks' = [socks EXCEPT ![k] = [owner |-> NULL, state |-> "closed"]]
    /\ LET p == socks[k].owner
           byEnd == socks[k].state = "closing"
       IN
       IF forceDisconnect
       THEN /\ lastOp' = Op("close", "forced", p, 0, byEnd)
            /\ UNCHANGED <<promise, retries, reconnectTimeout,
                           isReconnecting, timers, drops>>
       ELSE IF isReconnecting
       THEN /\ lastOp' = Op("close", "dup", p, 0, byEnd)
            /\ UNCHANGED <<promise, retries, reconnectTimeout,
                           isReconnecting, timers, drops>>
       ELSE IF MayRetry(retries, maxRetries)
       THEN /\ retries' = retries + 1
            /\ isReconnecting' = TRUE
            /\ timers' = timers \cup
                   {[id |-> k, owner |-> p, delay |-> Delay(retries + 1)]}
            /\ reconnectTimeout' = k
            /\ drops' = drops + 1
            /\ lastOp' = Op("close", "retry", p, retries + 1, byEnd)
            /\ UNCHANGED promise
       ELSE /\ promise' = Settle(promise, p, "rejected")
            /\ drops' = drops + 1
            /\ lastOp' = Op("close", "reject", p, retries, byEnd)
            /\ UNCHANGED <<retries, reconnectTimeout, isReconnecting, timers>>
    /\ UNCHANGED <<isBusy, beginPromise, ws, forceDisconnect, maxRetries>>

\* the reconnect timer callback: this._reconnectTimeout = null; connect()
timerFire(t) ==
    /\ Len(socks) < MaxSockets
    /\ timers' = timers \ {t}
    /\ reconnectTimeout' = NULL
    /\ connect(t.owner)
    /\ lastOp' = Op("timer", "fired", t.owner, t.delay, FALSE)
    /\ UNCHANGED <<isBusy, beginPromise, promise, retries, maxRetries, drops>>

\* DeviceWsInTransport._onSend(req).  WebSocket.send throws while the socket
\* is connecting, transmits when it is open and discards the data silently
\* when the socket is closing or closed.
onSend ==
    /\ lastOp' =
         IF ws = NULL THEN Op("send", "false", NULL, 0, FALSE)
         ELSE IF socks[ws].state = "connecting"
              THEN Op("send", "throw", NULL, 0, FALSE)
         ELSE Op("send", "true", NULL, 0, socks[ws].state = "open")
    /\ UNCHANGED <<isBusy, beginPromise, promise, socks, ws, forceDisconnect,
                   retries, maxRetries, reconnectTimeout, isReconnecting,
                   timers, drops>>

\* --------------------------------------------------------- authentication
\* the result of the caller-supplied hash function, as a string
Sha(str) == "sha256(" \o str \o ")"

\* prepareAuthPartialFrame: sha256 of the parts joined with ':'
Proof(token, nonce, nc, cn) ==
    Sha(token \o ":" \o ToString(nonce) \o ":" \o ToString(nc) \o ":"
        \o ToString(cn) \o ":auth:" \o Sha("dummy_method:dummy_uri"))

\* faulty variant of AuthBlock: the stored nonce count wins over the argument
AuthBlock_storedNc(frame, rpcAuth, nc) ==
    [nonce |-> frame.nonce, realm |-> frame.realm, nc |-> frame.nc,
     cnonce |-> rpcAuth.cnonce, response |-> rpcAuth.response,
     username |-> "admin", algorithm |-> "SHA-256"]

\* _regenerateAuthFrames, the object returned:
\* {...this._authFrame, ...rpcAuth, nc, username, algorithm}
AuthBlock(frame, rpcAuth, nc) ==
    [nonce |-> frame.nonce, realm |-> frame.realm, nc |-> nc,
     cnonce |-> rpcAuth.cnonce, response |-> rpcAuth.response,
     username |-> "admin", algorithm |-> "SHA-256"]

\* faulty variant of IssueNc: the nonce count is read after the increment
IssueNc_post(frame) == frame.nc + 1

\* rpcRequest: const nc = this._authFrame.nc, read before the increment
IssueNc(frame) == frame.nc

Call(kind, phase, hasNc, nc, token, nonce, cn, err) ==
    [kind |-> kind, phase |-> phase, hasNc |-> hasNc, nc |-> nc,
     token |-> token, nonce |-> nonce, cn |-> cn, auth |-> <<>>,
     err |-> err, clean |-> TRUE]

\* history: the calls in flight saw the stored challenge change
Touched(cs) == [i \in 1..Len(cs) |-> [cs[i] EXCEPT !.clean = FALSE]]

\* _regenerateAuthFrames(nc) up to its first await, with the challenge
\* frame it finds and t the value of Date.now(): the call it leaves behind
regenerateStart(kind, frame, nc, t) ==
    IF ~sha256Func
    THEN Call(kind, "rejected", TRUE, nc, "", 0, 0, "noSha256")
    ELSE IF frame = <<>>
    THEN Call(kind, "rejected", TRUE, nc, "", 0, 0, "noChallenge")
    ELSE Call(kind, "hashing", TRUE, nc, userShaToken, frame[1].nonce,
              IF cnonce = NULL THEN t ELSE cnonce, "")

\* prepareAuthPartialFrame: if (!cnonce) cnonce = Date.now()
cnonceAfter(c) == IF c.phase = "hashing" THEN c.cn ELSE cnonce

\* authenticate(id, password)
authenticate(id, password) ==
    /\ IF ~sha256Func
       THEN /\ authOp' = AOp("authenticate", "noSha256", 0, <<>>)
            /\ UNCHANGED userShaToken
       ELSE IF authFrame = <<>>
       THEN /\ authOp' = AOp("authenticate", "noChallenge", 0, <<>>)
            /\ UNCHANGED userShaToken
       ELSE /\ userShaToken' = Sha("admin:" \o id \o ":" \o password)
            /\ authOp' = AOp("authenticate", "ok", 0, <<>>)
    /\ UNCHANGED <<sha256Func, authFrame, cnonce, calls>>

\* rpcRequest(method, params, options) up to its first await: without a
\* challenge on file the request goes to super.rpcRequest at once
rpcRequest(t) ==
    /\ Len(calls) < MaxCalls
    /\ IF authFrame = <<>>
       THEN /\ calls' = Append(calls,
                   Call("rpc", "sent", FALSE, 0, "", 0, 0, ""))
            /\ UNCHANGED <<authFrame, cnonce>>
       ELSE LET nc == IssueNc(authFrame[1])
                frame == <<[authFrame[1] EXCEPT !.nc = @ + 1]>>
                c == regenerateStart("rpc", frame, nc, t)
            IN  /\ authFrame' = frame
                /\ cnonce' = cnonceAfter(c)
                /\ calls' = Append(Touched(calls), c)
    /\ authOp' = AOp("issue", calls'[Len(calls')].phase, Len(calls) + 1, <<>>)
    /\ UNCHANGED <<sha256Func, userShaToken>>

\* a direct call of _regenerateAuthFrames(nc), up to its first await
regenerate(nc, t) ==
    /\ Len(calls) < MaxCalls
    /\ LET c == regenerateStart("regen", authFrame, nc, t)
       IN  /\ cnonce' = cnonceAfter(c)
           /\ calls' = Append(calls, c)
           /\ authOp' = AOp("regen", IF c.phase = "rejected" THEN c.err
                                     ELSE "hashing", Len(calls) + 1, <<>>)
    /\ UNCHANGED <<sha256Func, authFrame, userShaToken>>

\* the hashes of call i are done: _regenerateAuthFrames returns the auth
\* block, built from the challenge on file now; rpcRequest attaches it and
\* hands the request to super.rpcRequest
authReady(i) ==
    /\ calls[i].phase = "hashing"
    /\ LET c == calls[i]
           rpcAuth == [cnonce |-> cnonce,
                       response |-> Proof(c.token, c.nonce, c.nc, c.cn)]
           block == AuthBlock(authFrame[1], rpcAuth, c.nc)
       IN  calls' = [calls EXCEPT ![i].auth = <<block>>,
                                  ![i].phase = IF c.kind = "rpc" THEN "sent"
                                               ELSE "resolved"]
    /\ authOp' = AOp("ready", calls'[i].phase, i, <<>>)
    /\ UNCHANGED <<sha256Func, authFrame, userShaToken, cnonce>>

\* faulty variant of response: the 401 is rethrown after the capture
response_rethrow401(i, o, ch) ==
    /\ calls[i].phase = "sent"
    /\ IF o = "ok"
       THEN /\ calls' = [calls EXCEPT ![i].phase = "resolved"]
            /\ UNCHANGED authFrame
       ELSE IF o \in {"rpcError", "error"}
       THEN /\ calls' = [calls EXCEPT ![i].phase = "rejected", ![i].err = o]
            /\ UNCHANGED authFrame
       ELSE IF o = "401garbled"
       THEN /\ calls' = [calls EXCEPT ![i].phase = "rejected",
                                      ![i].err = "SyntaxError"]
            /\ UNCHANGED authFrame
       ELSE IF o = "401challenge"
       THEN /\ authFrame' = <<[nonce |-> ch.nonce, realm |-> ch.realm,
                              nc |-> ch.nc]>>
            /\ calls' = [Touched(calls) EXCEPT ![i].phase = "rejected",
                                               ![i].err = "rpcError"]
       ELSE /\ calls' = [calls EXCEPT ![i].phase = "hung"]
            /\ UNCHANGED authFrame
    /\ authOp' = AOp("response", o, i, IF o = "401challenge" THEN <<ch>>
                                       ELSE <<>>)
    /\ UNCHANGED <<sha256Func, userShaToken, cnonce>>

\* super.rpcRequest of call i settles with outcome o (ch: the challenge of
\* a 401): rpcRequest returns the result or runs its catch block
response(i, o, ch) ==
    /\ calls[i].phase = "sent"
    /\ IF o = "ok"
       THEN /\ calls' = [calls EXCEPT ![i].phase = "resolved"]
            /\ UNCHANGED authFrame
       ELSE IF o \in {"rpcError", "error"}
       THEN /\ calls' = [calls EXCEPT ![i].phase = "rejected", ![i].err = o]
            /\ UNCHANGED authFrame
       ELSE IF o = "401garbled"
       THEN /\ calls' = [calls EXCEPT ![i].phase = "rejected",
                                      ![i].err = "SyntaxError"]
            /\ UNCHANGED authFrame
       ELSE IF o = "401challenge"
       THEN /\ authFrame' = <<[nonce |-> ch.nonce, realm |-> ch.realm,
                              nc |-> ch.nc]>>
            /\ calls' = [Touched(calls) EXCEPT ![i].phase = "hung"]
       ELSE /\ calls' = [calls EXCEPT ![i].phase = "hung"]
            /\ UNCHANGED authFrame
    /\ authOp' = AOp("response", o, i, IF o = "401challenge" THEN <<ch>>
                                       ELSE <<>>)
    /\ UNCHANGED <<sha256Func, userShaToken, cnonce>>

connFrame == <<config, connVars>>

Authenticate ==
    /\ \E id \in DeviceIds, pw \in Passwords : authenticate(id, pw)
    /\ UNCHANGED connFrame
RpcRequest == (\E t \in Times : rpcRequest(t)) /\ UNCHANGED connFrame
Regenerate ==
    /\ \E nc \in RegenCounts, t \in Times : regenerate(nc, t)
    /\ UNCHANGED connFrame
AuthReady == (\E i \in 1..Len(calls) : authReady(i)) /\ UNCHANGED connFrame
Response ==
    /\ \E i \in 1..Len(calls), o \in Outcomes, ch \in Challenges :
          response(i, o, ch)
    /\ UNCHANGED connFrame

NextAuth == Authenticate \/ RpcRequest \/ Regenerate \/ AuthReady \/ Response

SpecAuth == InitAuth /\ [][NextAuth]_vars

Begin == begin /\ UNCHANGED <<config, authVars>>
End == end /\ UNCHANGED <<config, authVars>>
SockOpen == (\E k \in 1..Len(socks) : onopen(k)) /\ UNCHANGED <<config, authVars>>
SockClose == (\E k \in 1..Len(socks) : onclose(k)) /\ UNCHANGED <<config, authVars>>
TimerFire == (\E t \in timers : timerFire(t)) /\ UNCHANGED <<config, authVars>>
Send == onSend /\ UNCHANGED <<config, authVars>>

\* lifecycle calls and socket and timer events
Next == Begin \/ End \/ SockOpen \/ SockClose \/ TimerFire

Spec == Init /\ [][Next]_vars

\* the same with _onSend called at any moment (it changes no field)
NextSend == Next \/ Send

SpecSend == Init /\ [][NextSend]_vars

\* A transport that is begun and never ended.  A connection attempt ends:
\* the run time delivers an open or a close event to every connecting
\* socket, and a timer that was set and is not cleared fires.
SockSettle ==
    /\ \E k \in 1..Len(socks) :
          socks[k].state = "connecting" /\ (onopen(k) \/ onclose(k))
    /\ UNCHANGED <<config, authVars>>

NextLive == Begin \/ SockOpen \/ SockClose \/ TimerFire

SpecLive ==
    Init /\ [][NextLive]_vars /\ WF_vars(SockSettle) /\ WF_vars(TimerFire)

TypeOK ==
    /\ isBusy \in BOOLEAN
    /\ beginPromise \in 0..Len(promise)
    /\ ws \in 0..Len(socks)
    /\ retries \in Nat
    /\ \A t \in timers : t.id \in 1..Len(socks)

\* the program state, without the history variables
prog == <<isBusy, beginPromise, promise, socks, ws, forceDisconnect, retries,
          maxRetries, reconnectTimeout, isReconnecting, timers>>

\* ================================================================= claims

\* C1: while a start handle is stored (no end() since the begin() that
\* created it), a begin() call does not invoke _onBegin again and returns
\* the stored handle; the begin() call that finds none invokes _onBegin
\* exactly once and returns the handle it stored.
C1_BeginDedup ==
    [][lastOp'.op = "begin" =>
         /\ beginPromise # NULL =>
              /\ Len(promise') = Len(promise)
              /\ beginPromise' = beginPromise
              /\ lastOp'.res = "handle"
              /\ lastOp'.h = beginPromise
         /\ (beginPromise = NULL /\ ~isBusy) =>
              /\ Len(promise') = Len(promise) + 1
              /\ lastOp'.res = "handle"
              /\ lastOp'.h = beginPromise'
              /\ beginPromise' = Len(promise')]_vars

\* a second begin() returned the handle of a start that is still pending
C1_Witness ==
    /\ lastOp.op = "begin" /\ lastOp.res = "handle" /\ ~lastOp.f
    /\ lastOp.h = beginPromise
    /\ promise[lastOp.h] = "pending"

\* C2: at most one active session per transport instance: at most one
\* socket is connecting or open (a socket end() has called close() on is
\* not counted), and only the connect loop of the current start handle
\* owns a connecting or open socket or a pending reconnect timer.
C2_OneActiveSession ==
    /\ Cardinality({k \in 1..Len(socks) : Live(k)}) <= 1
    /\ \A k \in 1..Len(socks) : Live(k) => socks[k].owner = beginPromise
    /\ \A t \in timers : t.owner = beginPromise

\* C3: between an end() and the next begin() no reconnect timer fires and
\* no socket is created, whatever socket events are still delivered.
C3_EndStopsReconnect ==
    [][~isBusy =>
         /\ lastOp'.op # "timer"
         /\ lastOp'.op # "begin" => Len(socks') = Len(socks)]_vars

\* end() cancelled a pending reconnect timer; the transport is idle
C3_Witness ==
    /\ ~isBusy
    /\ lastOp.op = "end" /\ lastOp.res = "ok" /\ lastOp.f
    /\ timers = {}

\* C4: the close event of a socket that end() closed is never handled as
\* an unexpected drop: its handler neither counts a retry and schedules a
\* reconnect nor rejects a start handle.
C4_ForcedCloseIgnored ==
    (lastOp.op = "close" /\ lastOp.f) => lastOp.res \in {"forced", "dup"}

C6_ExhaustionRejects ==
    (lastOp.op = "close" /\ lastOp.res = "reject" /\ isBusy) =>
        promise[beginPromise] = "rejected"

\* C7: end() while idle fails with the usage error and changes nothing:
\* busy flag, start handle and connection state stay as they were.
C7_EndIdleThrows ==
    [][(lastOp'.op = "end" /\ ~isBusy) =>
         (lastOp'.res = "throw" /\ UNCHANGED prog)]_vars

\* end() failed on a transport that had been begun and ended before
C7_Witness ==
    /\ lastOp.op = "end" /\ lastOp.res = "throw"
    /\ Len(promise) > 0
    /\ ~isBusy

\* C8 (as stated): end() while active transitions to idle, and a second
\* end() right after it completes like the first.
C8_EndIdempotent ==
    [][lastOp'.op = "end" =>
         /\ isBusy => (~isBusy' /\ beginPromise' = NULL /\ lastOp'.res = "ok")
         /\ (lastOp.op = "end" /\ lastOp.res = "ok") =>
              (lastOp'.res = "ok" /\ UNCHANGED prog)]_vars

\* C8 (amended): end() while starting or active transitions to idle and
\* completes; a second end() right after it fails with the usage error and
\* leaves the state as the first call left it.
C8_EndTwice ==
    [][lastOp'.op = "end" =>
         /\ isBusy => (~isBusy' /\ beginPromise' = NULL /\ lastOp'.res = "ok")
         /\ (lastOp.op = "end" /\ lastOp.res = "ok") =>
              (lastOp'.res = "throw" /\ UNCHANGED prog)]_vars

\* end() was called twice in a row; the second call threw
C8_Witness ==
    /\ lastOp.op = "end" /\ lastOp.res = "throw" /\ lastOp.f
    /\ ~isBusy /\ beginPromise = NULL
    /\ Len(promise) > 0

\* C9: send never raises, and returns true exactly when _ws is an open
\* socket (the frame was transmitted).
C9_SendBoolean ==
    lastOp.op = "send" =>
        /\ lastOp.res # "throw"
        /\ lastOp.res = "true" <=> (ws # NULL /\ socks[ws].state = "open")
        /\ lastOp.res = "true" <=> lastOp.f

\* C10: the delay of the reconnect scheduled on the k-th consecutive
\* unexpected close is 500 * max(k, 5): 2500 for k = 1..5 and 3000, 3500,
\* 4000 for k = 6, 7, 8.
C10_ReconnectDelay ==
    (lastOp.op = "close" /\ lastOp.res = "retry") =>
        \E t \in timers :
            /\ t.id = reconnectTimeout
            /\ t.delay = 500 * (IF drops > 5 THEN drops ELSE 5)
            /\ drops \in 1..5 => t.delay = 2500
            /\ drops = 6 => t.delay = 3000
            /\ drops = 7 => t.delay = 3500
            /\ drops = 8 => t.delay = 4000

\* the 8th consecutive unexpected close scheduled a reconnect after 4000
C10_Witness ==
    /\ lastOp.op = "close" /\ lastOp.res = "retry"
    /\ drops = 8
    /\ \E t \in timers : t.id = reconnectTimeout /\ t.delay = 4000

\* C11: the effective retry budget is the configured maxRetries for every
\* configured integer (0 included), 5 when maxRetries is omitted, and
\* unlimited for -1, where no close ever rejects the connect operation.
C11_EffectiveBudget ==
    LET budget == IF config = Absent THEN 5 ELSE config
    IN  (lastOp.op = "close" /\ lastOp.res \in {"retry", "reject"}) =>
            (lastOp.res = "retry" <=> (budget = -1 \/ drops <= budget))

\* what a direct run of the disconnect routine leaves alone
onEndFrame ==
    <<config, isBusy, beginPromise, promise, maxRetries, lastOp, authVars>>

\* C17: the disconnect routine can run in every connection state; right
\* after it the forced-disconnect flag is set, no reconnect timer is
\* pending, the reconnecting flag is clear, no socket is held and the retry
\* counter is 0; running it again then changes nothing.
C17_Disconnect ==
    /\ ENABLED (onEnd /\ UNCHANGED onEndFrame)
    /\ (lastOp.op = "end" /\ lastOp.res = "ok") =>
          /\ forceDisconnect
          /\ reconnectTimeout = NULL /\ timers = {}
          /\ ~isReconnecting
          /\ ws = NULL
          /\ retries = 0
          /\ ENABLED (onEnd /\ UNCHANGED onEndFrame /\ prog' = prog)

\* the disconnect routine ran while a reconnect was pending
C17_Witness ==
    /\ lastOp.op = "end" /\ lastOp.res = "ok" /\ lastOp.f
    /\ forceDisconnect /\ retries = 0 /\ ws = NULL
    /\ \E k \in 1..Len(socks) : socks[k].state = "closed"

\* C18: at most one reconnect timer is pending and the reconnecting flag
\* is set exactly when one is; a close event that arrives while a reconnect
\* is scheduled changes neither the retry counter nor the timer.
C18_OneTimer ==
    [][/\ Cardinality(timers') <= 1
       /\ isReconnecting' <=> timers' # {}
       /\ \A t \in timers' : t.id = reconnectTimeout'
       /\ (lastOp'.op = "close" /\ timers # {}) =>
             /\ lastOp'.res = "dup"
             /\ retries' = retries
             /\ timers' = timers
             /\ reconnectTimeout' = reconnectTimeout
             /\ promise' = promise]_vars

\* a close event arrived while a reconnect was scheduled
C18_Witness ==
    /\ lastOp.op = "close" /\ lastOp.res = "dup"
    /\ isReconnecting /\ Cardinality(timers) = 1

\* C19: the busy flag is set exactly when a start handle is stored, so
\* begin() never throws; once the stored handle is rejected, begin() keeps
\* returning it and starts no new connect attempt.
C19_BusyIffHandle ==
    [][/\ isBusy' <=> beginPromise' # NULL
       /\ lastOp'.op = "begin" => lastOp'.res = "handle"
       /\ (lastOp'.op = "begin" /\ beginPromise # NULL
             /\ promise[beginPromise] = "rejected") =>
             /\ lastOp'.h = beginPromise
             /\ beginPromise' = beginPromise
             /\ promise' = promise
             /\ socks' = socks /\ timers' = timers]_vars

\* begin() returned a handle that was already rejected
C19_Witness ==
    /\ lastOp.op = "begin" /\ lastOp.res = "handle" /\ ~lastOp.f
    /\ isBusy /\ lastOp.h = beginPromise
    /\ promise[beginPromise] = "rejected"

\* C20: a start handle that is pending when end() is called is not settled
\* afterwards as long as no begin() follows.
C20_EndedHandleStaysPending ==
    [][(/\ ~isBusy /\ lastOp'.op # "begin"
        /\ Len(promise) > 0 /\ promise[Len(promise)] = "pending") =>
           promise'[Len(promise)] = "pending"]_vars

\* C16: without end() and with a finite maxRetries, the handle begin()
\* returned eventually settles, provided connecting sockets get their open
\* or close event and reconnect timers fire.
C16_BeginSettles ==
    (beginPromise # NULL /\ maxRetries # RECONNECT_RETRIES_INFINITE)
        ~> (beginPromise # NULL /\ promise[beginPromise] # "pending")

\* the handle was rejected after the retries were exhausted
C16_Witness ==
    /\ beginPromise # NULL /\ promise[beginPromise] = "rejected"
    /\ maxRetries = DEFAULT_RECONNECT_RETRIES
    /\ retries = maxRetries

\* the call of the last step returned to its caller: rpcRequest settled
Returned(op, cs) ==
    /\ op.op \in {"issue", "response"}
    /\ cs[op.i].kind = "rpc" /\ cs[op.i].hasNc
    /\ cs[op.i].phase \in {"resolved", "rejected"}

\* C12 (as stated): an rpcRequest issued with a challenge on file passes on
\* the nonce count as it was before the call, the auth block of the request
\* carries it, and when the call returns the stored count is that value + 1.
C12_NonceCount ==
    [][/\ (authOp'.op = "issue" /\ authFrame # <<>>) =>
             calls'[authOp'.i].nc = authFrame[1].nc
       /\ (authOp'.op = "ready" /\ calls[authOp'.i].kind = "rpc") =>
             calls'[authOp'.i].auth[1].nc = calls[authOp'.i].nc
       /\ Returned(authOp', calls') =>
             authFrame'[1].nc = calls'[authOp'.i].nc + 1]_vars

\* C12 (amended): the call passes on the nonce count as it was before the
\* call and raises the stored count by exactly 1 when it is issued; its
\* return does not change the stored count, which is that value + 1 unless
\* another rpcRequest took a nonce count or a challenge was captured
\* while the call was in flight.
C12_NonceCountPerCall ==
    [][/\ (authOp'.op = "issue" /\ authFrame # <<>>) =>
             /\ calls'[authOp'.i].nc = authFrame[1].nc
             /\ authFrame' = <<[authFrame[1] EXCEPT !.nc = @ + 1]>>
       /\ (authOp'.op = "ready" /\ calls[authOp'.i].kind = "rpc") =>
             calls'[authOp'.i].auth[1].nc = calls[authOp'.i].nc
       /\ (Returned(authOp', calls') /\ authOp'.op = "response") =>
             authFrame' = authFrame
       /\ (Returned(authOp', calls') /\ calls'[authOp'.i].clean) =>
             authFrame'[1].nc = calls'[authOp'.i].nc + 1]_vars

\* a request sent with an auth block returned a result
C12_Witness ==
    /\ authOp.op = "response" /\ authOp.res = "ok"
    /\ calls[authOp.i].hasNc /\ calls[authOp.i].clean
    /\ calls[authOp.i].auth # <<>>
    /\ calls[authOp.i].auth[1].nc = calls[authOp.i].nc
    /\ authFrame[1].nc = calls[authOp.i].nc + 1

C14_MalformedSwallowed ==
    [][(authOp'.op = "response"
          /\ authOp'.res \in {"401notChallenge", "401garbled"}) =>
             /\ calls'[authOp'.i].phase = "hung"
             /\ authFrame' = authFrame]_vars

\* what a completed _regenerateAuthFrames call returned
RegenReturns(i) ==
    /\ calls'[i].phase = "resolved"
    /\ calls'[i].auth[1].nonce = authFrame[1].nonce
    /\ calls'[i].auth[1].realm = authFrame[1].realm
    /\ calls'[i].auth[1].nonce \in {ch.nonce : ch \in Challenges}
    /\ calls'[i].auth[1].nc = calls[i].nc
    /\ calls'[i].auth[1].nc \in RegenCounts

\* C15 (as stated): building an auth block fails with the missing-challenge
\* error whenever no challenge has been captured, and with a challenge
\* captured and a hash function set it succeeds and returns the captured
\* nonce and realm with the nonce count of the caller.
C15_AuthBlock ==
    [][/\ (authOp'.op = "regen" /\ authFrame = <<>>) =>
             authOp'.res = "noChallenge"
       /\ (authOp'.op = "regen" /\ authFrame # <<>> /\ sha256Func) =>
             authOp'.res = "hashing"
       /\ (authOp'.op = "ready" /\ calls[authOp'.i].kind = "regen") =>
             RegenReturns(authOp'.i)]_vars

\* C15 (amended): building an auth block fails with the missing-challenge
\* error whenever no challenge has been captured and a hash function is
\* set, and with the missing-hash-function error whenever none is set; with
\* a challenge captured and a hash function set it succeeds and returns the
\* captured nonce and realm with the nonce count of the caller.
C15_AuthBlockHashFirst ==
    [][/\ (authOp'.op = "regen" /\ authFrame = <<>> /\ sha256Func) =>
             authOp'.res = "noChallenge"
       /\ (authOp'.op = "regen" /\ ~sha256Func) =>
             authOp'.res = "noSha256"
       /\ (authOp'.op = "regen" /\ authFrame # <<>> /\ sha256Func) =>
             authOp'.res = "hashing"
       /\ (authOp'.op = "ready" /\ calls[authOp'.i].kind = "regen") =>
             RegenReturns(authOp'.i)]_vars

\* an auth block was built with a nonce count other than the stored one
C15_Witness ==
    /\ authOp.op = "ready" /\ authOp.res = "resolved"
    /\ calls[authOp.i].kind = "regen"
    /\ calls[authOp.i].auth[1].nc # authFrame[1].nc
    /\ calls[authOp.i].auth[1].realm = authFrame[1].realm

====
